---- MODULE Spec2Model ----
(***************************************************************************)
(* Agent orchestration layer of SmartHR AI (src/SmartHR_App.tsx):          *)
(* the Gemini gateway (callGemini), the resume screener (handleScreening)  *)
(* with its history subscription, the interview agent (startInterview,     *)
(* handleResponse, generateFeedback, End Session), the HR assistant        *)
(* (handleSend) and the fence stripping and parse of model text.           *)
(*                                                                         *)
(* A text is a sequence of chunks (strings); the text it stands for is the *)
(* concatenation of its chunks.  The chunks are chosen so that each        *)
(* pattern the code looks for ("concludes", a code-fence marker, white     *)
(* space, a JSON document) is one chunk and is part of no other chunk.     *)
(* The chunk "[fence]" stands for three backquotes.  A job                 *)
(* description is a text whose chunks are single characters, so that       *)
(* slice(0, 30) counts characters.                                         *)
(***************************************************************************)
EXTENDS Integers, Sequences, FiniteSets, TLC

VARIABLES
    \* ---- InterviewAgent (useState, lines 414-419)
    active,         \* boolean
    role,           \* text
    conversation,   \* sequence of [sender, text]
    currentInput,   \* text
    isListening,    \* boolean
    feedback,       \* JSON value, JsNull when unset
    calls,          \* suspended continuations awaiting callGemini, in issue order;
                    \* stale marks those issued before the last End Session
    terminated,     \* generateFeedback was invoked since the last start/end of session
    \* ---- ResumeScreener (the user prop and useState, lines 239-244)
    user,           \* user.uid
    jobDesc,        \* text (characters)
    resumeText,     \* text
    analysis,       \* JSON value, JsNull when unset
    loading,        \* boolean
    scr,            \* the suspended handleScreening: its await point and closure
    store,          \* the persisted 'screenings' collection, in order of creation;
                    \* each record carries its document id
    notice,         \* the text of the alert() raised by the running/last screening, <<>> if none
    scrTrace,       \* what the running/last screening went through
    crashed,        \* rendering the component threw (the tree is unmounted)
    history,        \* the last snapshot delivered to the subscription
    \* ---- HRAssistant (useState, lines 156-160)
    messages,       \* sequence of [role, text]
    input,          \* text
    isTyping,       \* boolean
    chatCalls,      \* suspended handleSend continuations, in issue order
    \* ---- callGemini in isolation
    gw,
    \* ---- the fence stripping and parse in isolation: the last two extractions
    ext,
    \* ---- the guarded handler the last step invoked or resumed, Other for any
    \*      other step
    op,
    \* ---- the text callGemini returned to the continuation the last step
    \*      resumed, <<>> for any other step
    ret

vars == <<active, role, conversation, currentInput, isListening, feedback, calls,
          terminated, user, jobDesc, resumeText, analysis, loading, scr, store, notice,
          scrTrace, crashed, history, messages, input, isTyping, chatCalls, gw, ext, op, ret>>

interviewVars == <<active, role, conversation, currentInput, isListening, feedback,
                   calls, terminated>>
screenerVars  == <<user, jobDesc, resumeText, analysis, loading, scr, store, notice,
                   scrTrace, crashed, history>>
chatVars      == <<messages, input, isTyping, chatCalls>>

----------------------------------------------------------------------------
(* Bounds *)

MaxTurns    == 3    \* handleResponse is taken while the transcript is shorter
MaxInFlight == 2    \* suspended interview continuations
MaxStore    == 2    \* records in the screenings collection
MaxClock    == 1    \* values of the client clock read by Timestamp.now()
MaxChat     == 4    \* handleSend is taken while the chat transcript is shorter

----------------------------------------------------------------------------
(* Texts *)

Min(a, b) == IF a < b THEN a ELSE b

WS == {" ", "\n"}

RECURSIVE TrimStart(_)
TrimStart(t) == IF t # <<>> /\ Head(t) \in WS THEN TrimStart(Tail(t)) ELSE t

RECURSIVE TrimEnd(_)
TrimEnd(t) ==
    IF t # <<>> /\ t[Len(t)] \in WS THEN TrimEnd(SubSeq(t, 1, Len(t) - 1)) ELSE t

\* a trim that trims nothing
Trim_None(t) == t

\* String.prototype.trim
Trim(t) == TrimEnd(TrimStart(t))

\* a test that looks at the start of the text only
Includes_First(t, chunk) == t # <<>> /\ t[1] = chunk

\* text.includes(chunk)
Includes(t, chunk) == \E i \in 1..Len(t) : t[i] = chunk

\* text.replace(/[fence]json|[fence]/g, '')
FenceMarkers == {"[fence]json", "[fence]"}
StripFences(t) == SelectSeq(t, LAMBDA c : c \notin FenceMarkers)

\* a slice that keeps the whole text
Slice_Whole(t, n) == t

\* text.slice(0, n)
Slice(t, n) == SubSeq(t, 1, Min(n, Len(t)))

\* !text  (the empty string is the only falsy string)
Falsy(t) == t = <<>>

----------------------------------------------------------------------------
(* JSON values and JSON.parse *)

\* a JSON value: its type, the keys it has (for an object), and the values
\* of the two keys the code copies
JsValue(ty, keys, sc, rec) ==
    [type |-> ty, has |-> keys, score |-> sc, recommendation |-> rec]

JsNull == JsValue("null", {}, 0, "")

ScreeningKeys == {"score", "strengths", "gaps", "recommendation", "summary"}
FeedbackKeys  == {"score", "pros", "cons"}

\* the JSON documents a model text can carry, each one chunk, and the value
\* JSON.parse gives for it
DocHire     == "{score:88,strengths:[..],gaps:[..],recommendation:Hire,summary:..}"
DocReject   == "{score:35,strengths:[..],gaps:[..],recommendation:Reject,summary:..}"
DocNoLists  == "{score:70,recommendation:Hire}"
DocFeedback == "{score:90,pros:[..],cons:[..]}"
DocNull     == "null"
\* a document with a string value in which three backquotes are written as
\* escapes, and the document left of its canonical form (the backquotes written
\* out, DocWrittenOut) when the fence pattern has been removed from it
DocEscaped  == "{score:55,strengths:[..],gaps:[..],recommendation:Hire \\u0060\\u0060\\u0060,summary:..}"
DocWrittenOut ==
    <<"{score:55,strengths:[..],gaps:[..],recommendation:Hire ", "[fence]", ",summary:..}">>
DocCut      == "{score:55,strengths:[..],gaps:[..],recommendation:Hire ,summary:..}"

JsonDocs == {DocHire, DocReject, DocNoLists, DocFeedback, DocNull, DocEscaped, DocCut}

DocValue(d) ==
    CASE d = DocHire     -> JsValue("object", ScreeningKeys, 88, "Hire")
      [] d = DocReject   -> JsValue("object", ScreeningKeys, 35, "Reject")
      [] d = DocNoLists  -> JsValue("object", {"score", "recommendation"}, 70, "Hire")
      [] d = DocFeedback -> JsValue("object", FeedbackKeys, 90, "")
      [] d = DocEscaped  -> JsValue("object", ScreeningKeys, 55, "Hire [fence]")
      [] d = DocCut      -> JsValue("object", ScreeningKeys, 55, "Hire ")
      [] OTHER           -> JsNull

\* a parse that picks a JSON document out of the surrounding prose
JsonParse_Lenient(t) ==
    IF \E i \in 1..Len(t) : t[i] \in JsonDocs
    THEN [threw |-> FALSE,
          value |-> DocValue(t[CHOOSE i \in 1..Len(t) : t[i] \in JsonDocs])]
    ELSE [threw |-> TRUE, value |-> JsNull]

\* a parse that rejects an object without all the fields of a screening
JsonParse_Required(t) ==
    LET u == Trim(t)
    IN  IF Len(u) = 1 /\ u[1] \in JsonDocs
             /\ (DocValue(u[1]).type = "object" => ScreeningKeys \subseteq DocValue(u[1]).has)
        THEN [threw |-> FALSE, value |-> DocValue(u[1])]
        ELSE [threw |-> TRUE,  value |-> JsNull]

\* the string the chunks of a text spell
RECURSIVE Join(_)
Join(t) == IF t = <<>> THEN "" ELSE Head(t) \o Join(Tail(t))

\* JSON.parse(text): white space around one JSON document is allowed, anything
\* else is a SyntaxError
JsonParse(t) ==
    LET d == Join(Trim(t))
    IN  IF d \in JsonDocs
        THEN [threw |-> FALSE, value |-> DocValue(d)]
        ELSE [threw |-> TRUE,  value |-> JsNull]

\* !value for a parsed value (only null is falsy among the values above)
IsSet(v) == v.type # "null"

----------------------------------------------------------------------------
(* callGemini (lines 60-82) *)

NoCompletion   == <<"I couldn't process that request.">>
ConnectError   == <<"Error connecting to AI services. Please try again.">>

\* texts the model can answer with
TextQuestion   == <<"Can you describe a project you led?">>
TextConcludes  == <<"Thank you, that ", "concludes", " the interview.">>
TextConcluded  == <<"We have ", "concluded", " the first part. Next question?">>
TextFenced     == <<"[fence]json", "\n", DocHire, "\n", "[fence]">>
TextBare       == <<DocReject>>
TextProse      == <<"Here is the analysis: ", DocHire>>
TextNoLists    == <<DocNoLists>>
TextNull       == <<DocNull>>
TextFeedback   == <<"[fence]json", DocFeedback, "[fence]", "\n">>

ModelTexts == {TextQuestion, TextConcludes, TextConcluded, TextFenced, TextBare,
               TextProse, TextNoLists, TextNull, TextFeedback}

\* what the endpoint does for one request: fetch rejects; or a response with
\* status ok or not, whose body is unreadable or is a JSON value of some shape
Outcome(k, sh, t) == [kind |-> k, shape |-> sh, text |-> t]

EndpointOutcomes ==
    {Outcome(k, "none", <<>>) : k \in {"fetch-rejects", "status-not-ok", "body-unreadable"}}
    \cup {Outcome("ok", sh, <<>>) :
             sh \in {"null", "no-candidates", "empty-candidates", "no-text"}}
    \cup {Outcome("ok", "text", t) : t \in ModelTexts \cup {<<>>}}

\* data.candidates?.[0]?.content?.parts?.[0]?.text  (undefined is given as <<>>,
\* which || treats the same way)
CompletionText(o) == IF o.shape = "text" THEN o.text ELSE <<>>

\* the try block, lines 63-77
GeminiTry(o) ==
    IF o.kind = "fetch-rejects" THEN [threw |-> TRUE, value |-> <<>>]
    ELSE IF o.kind = "status-not-ok" THEN [threw |-> TRUE, value |-> <<>>]
    ELSE IF o.kind = "body-unreadable" THEN [threw |-> TRUE, value |-> <<>>]
    ELSE IF o.shape = "null" THEN [threw |-> TRUE, value |-> <<>>]
    ELSE [threw |-> FALSE,
          value |-> IF Falsy(CompletionText(o)) THEN NoCompletion
                    ELSE CompletionText(o)]

\* callGemini without its catch
callGemini_NoCatch(o) == GeminiTry(o)

\* try/catch, lines 62-81
callGemini(o) ==
    LET r == GeminiTry(o)
    IN  IF r.threw THEN [threw |-> FALSE, value |-> ConnectError] ELSE r


----------------------------------------------------------------------------
(* Initial state: the useState initial values *)

Other == "-"

\* line 157
Greeting ==
    [role |-> "ai",
     text |-> <<"Hello! I'm your HR Policy Assistant. Ask me about leaves, benefits, or company guidelines.">>]

Uids == {"uid-hr-1", "uid-hr-2"}

NoRecord == [id |-> 0, jobTitle |-> <<>>, score |-> 0, recommendation |-> "",
             timestamp |-> 0, createdBy |-> ""]
ScrIdle  == [pc |-> "idle", jd |-> <<>>, record |-> NoRecord]
GwIdle  == [pc |-> "idle", prompt |-> "", system |-> "", requests |-> 0,
            threw |-> FALSE, value |-> <<>>]
NoTrace == [extraction |-> "none", append |-> "none", jd |-> <<>>, text |-> <<>>,
            result |-> JsNull, before |-> 0]

InitWith(uid) ==
    /\ active = FALSE
    /\ role = <<>>
    /\ conversation = <<>>
    /\ currentInput = <<>>
    /\ isListening = FALSE
    /\ feedback = JsNull
    /\ calls = <<>>
    /\ terminated = FALSE
    /\ user = uid
    /\ jobDesc = <<>>
    /\ resumeText = <<>>
    /\ analysis = JsNull
    /\ loading = FALSE
    /\ scr = ScrIdle
    /\ store = <<>>
    /\ notice = <<>>
    /\ scrTrace = NoTrace
    /\ crashed = FALSE
    /\ history = <<>>
    /\ messages = <<Greeting>>
    /\ input = <<>>
    /\ isTyping = FALSE
    /\ chatCalls = <<>>
    /\ gw = GwIdle
    /\ ext = <<>>
    /\ op = Other
    /\ ret = <<>>

\* the caller identity is that of the signed-in user; only the screener reads it
Init == InitWith("uid-hr-1")

InitScreener == \E uid \in Uids : InitWith(uid)

----------------------------------------------------------------------------
(* callGemini on its own: one invocation, for every prompt, system          *)
(* instruction and endpoint outcome                                         *)

Prompts == {"", "What is the leave policy?", "Act as an expert Technical Recruiter.",
            "You are an AI Interviewer."}
SystemInstructions == {"", "Return only valid JSON.", "Be professional and concise."}

\* line 60-73: the call is entered and its one fetch is sent
GatewayInvoke(p, si) ==
    /\ gw.pc = "idle"
    /\ gw' = [GwIdle EXCEPT !.pc = "fetching", !.prompt = p, !.system = si,
                            !.requests = 1]
    /\ op' = "callGemini"
    /\ ret' = <<>>
    /\ UNCHANGED <<interviewVars, screenerVars, chatVars, ext>>

\* a call that sends its request once more when the first one failed
GatewayResolve_RetryOnce(o) ==
    /\ gw.pc = "fetching"
    /\ IF GeminiTry(o).threw /\ gw.requests < 2
       THEN gw' = [gw EXCEPT !.requests = 2]
       ELSE gw' = [gw EXCEPT !.pc = "returned", !.threw = callGemini(o).threw,
                             !.value = callGemini(o).value]
    /\ op' = Other
    /\ ret' = <<>>
    /\ UNCHANGED <<interviewVars, screenerVars, chatVars, ext>>

\* lines 75-81: the fetch settles and the call returns or raises
GatewayResolve(o) ==
    /\ gw.pc = "fetching"
    /\ gw' = [gw EXCEPT !.pc = "returned", !.threw = callGemini(o).threw,
                        !.value = callGemini(o).value]
    /\ op' = Other
    /\ ret' = <<>>
    /\ UNCHANGED <<interviewVars, screenerVars, chatVars, ext>>

NextGateway ==
    \/ \E p \in Prompts, si \in SystemInstructions : GatewayInvoke(p, si)
    \/ \E o \in EndpointOutcomes : GatewayResolve(o)

SpecGateway == Init /\ [][NextGateway]_vars

----------------------------------------------------------------------------
(* The fence stripping and parse on their own (lines 288-289 and 465), for   *)
(* every raw text                                                           *)

\* lines 288-289
ExtractScreening(t) == JsonParse(Trim(StripFences(t)))

\* line 465
ExtractFeedback(t) == JsonParse(StripFences(t))

\* a payload as it is, in a fenced block, and fenced on one line
Wraps(body) ==
    {body,
     <<"[fence]json", "\n">> \o body \o <<"\n", "[fence]">>,
     <<"[fence]">> \o body \o <<"[fence]", "\n">>}

RawTexts ==
    UNION {Wraps(<<d>>) : d \in JsonDocs}
      \cup Wraps(DocWrittenOut)
      \cup {TextProse, ConnectError, NoCompletion}

\* one extraction of the raw text t by the screening (who = "screening") or by
\* the feedback generation (who = "feedback"); ext keeps the last two
extract(who, t) ==
    /\ LET r   == IF who = "screening" THEN ExtractScreening(t) ELSE ExtractFeedback(t)
           rec == [who |-> who, raw |-> t, threw |-> r.threw, value |-> r.value]
       IN  ext' = IF ext = <<>> THEN <<rec>> ELSE <<ext[Len(ext)], rec>>
    /\ op' = "extract"
    /\ ret' = <<>>
    /\ UNCHANGED <<interviewVars, screenerVars, chatVars, gw>>

NextExtract ==
    \E who \in {"screening", "feedback"}, t \in RawTexts : extract(who, t)

SpecExtract == Init /\ [][NextExtract]_vars

----------------------------------------------------------------------------
(* InterviewAgent (lines 413-587) *)

Turn(s, t) == [sender |-> s, text |-> t]

\* a welcome that does not name the role
InitialMsg_NoRole(r) ==
    <<"Welcome to the interview for the ">>
      \o <<" position. I am your AI interviewer. Let's start with a simple question: Tell me about yourself and why you applied for this role.">>

\* line 424
InitialMsg(r) ==
    <<"Welcome to the interview for the ">> \o r
      \o <<" position. I am your AI interviewer. Let's start with a simple question: Tell me about yourself and why you applied for this role.">>

TerminationMarker == "concludes"

RoleTitles == {<<>>, <<"Frontend Dev">>}
Drafts     == {<<>>, <<" ">>, <<" ", "I led a migration.", "\n">>}

\* the endpoint's behaviour for an interviewer call and for a feedback call
ReplyOutcomes ==
    {o \in EndpointOutcomes :
        \/ o.kind = "fetch-rejects"
        \/ o.shape = "text" /\ o.text \in {TextQuestion, TextConcludes}}
FeedbackOutcomes ==
    {o \in EndpointOutcomes :
        \/ o.kind = "status-not-ok"
        \/ o.shape = "text" /\ o.text \in {TextFeedback, TextNull}}

RemoveAt(q, i) == SubSeq(q, 1, i - 1) \o SubSeq(q, i + 1, Len(q))

\* the start screen is rendered while !active (line 492), the chat with the
\* End Session button otherwise, and the input area while !feedback (line 559)
StartScreenShown == ~active
InputAreaShown   == active /\ ~IsSet(feedback)

\* line 507
SetRole(r) ==
    /\ StartScreenShown
    /\ role' = r
    /\ op' = Other
    /\ ret' = <<>>
    /\ UNCHANGED <<active, conversation, currentInput, isListening, feedback, calls,
                   terminated, screenerVars, chatVars, gw, ext>>

\* lines 421-426
startInterview ==
    /\ StartScreenShown
    /\ IF Falsy(role)
       THEN UNCHANGED <<active, conversation, terminated>>
       ELSE /\ active' = TRUE
            /\ conversation' = <<Turn("ai", InitialMsg(role))>>
            /\ terminated' = FALSE
    /\ op' = "startInterview"
    /\ ret' = <<>>
    /\ UNCHANGED <<role, currentInput, isListening, feedback, calls, screenerVars, chatVars, gw, ext>>

\* line 571 (typed text) and line 486 (dictated text)
SetCurrentInput(d) ==
    /\ InputAreaShown
    /\ currentInput' = d
    /\ op' = Other
    /\ ret' = <<>>
    /\ UNCHANGED <<active, role, conversation, isListening, feedback, calls,
                   terminated, screenerVars, chatVars, gw, ext>>

\* lines 471-490, with recognition.onstart
toggleSpeech ==
    /\ InputAreaShown
    /\ isListening' = ~isListening
    /\ op' = Other
    /\ ret' = <<>>
    /\ UNCHANGED <<active, role, conversation, currentInput, feedback, calls,
                   terminated, screenerVars, chatVars, gw, ext>>

\* lines 428-450: up to the await of callGemini
handleResponse ==
    /\ InputAreaShown
    /\ IF Falsy(Trim(currentInput))
       THEN UNCHANGED <<conversation, currentInput, isListening, calls>>
       ELSE LET newConv == Append(conversation, Turn("candidate", currentInput))
            IN  /\ Len(conversation) < MaxTurns
                /\ Len(calls) < MaxInFlight
                /\ conversation' = newConv
                /\ currentInput' = <<>>
                /\ isListening' = FALSE
                /\ calls' = Append(calls, [kind |-> "reply", conv |-> newConv,
                                           stale |-> FALSE])
    /\ op' = "handleResponse"
    /\ ret' = <<>>
    /\ UNCHANGED <<active, role, feedback, terminated, screenerVars, chatVars, gw, ext>>

\* lines 450-458: callGemini settles and handleResponse resumes; on the marker
\* it calls generateFeedback (lines 461-463), which suspends in its turn
handleResponseResumes(i, o) ==
    /\ i \in 1..Len(calls)
    /\ calls[i].kind = "reply"
    /\ LET reply     == callGemini(o).value
           finalConv == Append(calls[i].conv, Turn("ai", reply))
       IN  /\ conversation' = finalConv
           /\ IF Includes(reply, TerminationMarker)
              THEN /\ calls' = Append(RemoveAt(calls, i),
                                      [kind |-> "feedback", conv |-> finalConv,
                                       stale |-> calls[i].stale])
                   /\ terminated' = TRUE
              ELSE /\ calls' = RemoveAt(calls, i)
                   /\ UNCHANGED terminated
    /\ op' = "handleResponseResumes"
    /\ ret' = callGemini(o).value
    /\ UNCHANGED <<active, role, currentInput, isListening, feedback, screenerVars, chatVars, gw, ext>>

\* generateFeedback with a catch that reports the failure in the transcript
generateFeedbackResumes_ErrorTurn(i, o) ==
    /\ i \in 1..Len(calls)
    /\ calls[i].kind = "feedback"
    /\ LET res  == callGemini(o).value
           json == JsonParse(StripFences(res))
       IN  IF json.threw
           THEN /\ conversation' = Append(conversation,
                                          Turn("ai", <<"Feedback could not be generated.">>))
                /\ UNCHANGED feedback
           ELSE /\ feedback' = json.value
                /\ UNCHANGED conversation
    /\ calls' = RemoveAt(calls, i)
    /\ op' = "generateFeedback"
    /\ ret' = callGemini(o).value
    /\ UNCHANGED <<active, role, currentInput, isListening, terminated,
                   screenerVars, chatVars, gw, ext>>

\* lines 463-467: callGemini settles and generateFeedback resumes; a SyntaxError
\* of JSON.parse is caught and logged
generateFeedbackResumes(i, o) ==
    /\ i \in 1..Len(calls)
    /\ calls[i].kind = "feedback"
    /\ LET res  == callGemini(o).value
           json == JsonParse(StripFences(res))
       IN  IF json.threw
           THEN UNCHANGED feedback
           ELSE feedback' = json.value
    /\ calls' = RemoveAt(calls, i)
    /\ op' = "generateFeedback"
    /\ ret' = callGemini(o).value
    /\ UNCHANGED <<active, role, conversation, currentInput, isListening, terminated,
                   screenerVars, chatVars, gw, ext>>

\* line 525
EndSession ==
    /\ active
    /\ active' = FALSE
    /\ conversation' = <<>>
    /\ feedback' = JsNull
    /\ terminated' = FALSE
    /\ calls' = [i \in 1..Len(calls) |-> [calls[i] EXCEPT !.stale = TRUE]]
    /\ op' = Other
    /\ ret' = <<>>
    /\ UNCHANGED <<role, currentInput, isListening, screenerVars, chatVars, gw, ext>>

NextInterview ==
    \/ \E r \in RoleTitles : SetRole(r)
    \/ startInterview
    \/ \E d \in Drafts : SetCurrentInput(d)
    \/ toggleSpeech
    \/ handleResponse
    \/ \E i \in 1..MaxInFlight, o \in ReplyOutcomes : handleResponseResumes(i, o)
    \/ \E i \in 1..MaxInFlight, o \in FeedbackOutcomes : generateFeedbackResumes(i, o)
    \/ EndSession

SpecInterview == Init /\ [][NextInterview]_vars


----------------------------------------------------------------------------
(* ResumeScreener (lines 239-410) *)

PreviewLen == 30
Ellipsis   == <<".", ".", ".">>

\* line 304
AlertText == <<"AI Analysis failed. Try again.">>

JdShort == <<"G", "o", " ", "d", "e", "v">>
JdLong  ==
    <<"S", "e", "n", "i", "o", "r", " ", "G", "o", " ", "E", "n", "g", "i", "n", "e", "e", "r", ",", " ", "d", "i", "s", "t", "r", "i", "b", "u", "t", "e", "d">>
      \o <<" ", "s", "y", "s", "t", "e", "m", "s">>

JobDescs    == {<<>>, <<" ">>, JdShort, JdLong}
ResumeTexts == {<<>>, <<"\n">>, <<"5 years Go, distributed systems">>}

\* the endpoint's behaviour for a screening call
ScreeningOutcomes ==
    {o \in EndpointOutcomes :
        \/ o.kind = "fetch-rejects"
        \/ o.shape = "no-text"
        \/ o.shape = "text"
             /\ o.text \in {TextFenced, TextBare, TextProse, TextNoLists, TextNull}}

\* line 326
SetJobDesc(j) ==
    /\ ~crashed
    /\ jobDesc' = j
    /\ op' = Other
    /\ ret' = <<>>
    /\ UNCHANGED <<interviewVars, chatVars, crashed, history, user, resumeText, analysis, loading, scr, store,
                   notice, scrTrace, gw, ext>>

\* line 335
SetResumeText(r) ==
    /\ ~crashed
    /\ resumeText' = r
    /\ op' = Other
    /\ ret' = <<>>
    /\ UNCHANGED <<interviewVars, chatVars, crashed, history, user, jobDesc, analysis, loading, scr, store,
                   notice, scrTrace, gw, ext>>

\* handleScreening guarding on the job description alone
handleScreening_OnlyJobDesc ==
    /\ ~crashed
    /\ ~loading
    /\ IF Falsy(jobDesc)
       THEN UNCHANGED <<analysis, loading, scr, notice, scrTrace>>
       ELSE /\ Len(store) < MaxStore
            /\ loading' = TRUE
            /\ analysis' = JsNull
            /\ scr' = [ScrIdle EXCEPT !.pc = "callGemini", !.jd = jobDesc]
            /\ notice' = <<>>
            /\ scrTrace' = [NoTrace EXCEPT !.jd = jobDesc, !.before = Len(store)]
    /\ op' = "handleScreening"
    /\ ret' = <<>>
    /\ UNCHANGED <<interviewVars, chatVars, crashed, history, user, jobDesc, resumeText, store, gw, ext>>

\* lines 259-287: up to the await of callGemini; the button is disabled while
\* loading (line 340)
handleScreening ==
    /\ ~crashed
    /\ ~loading
    /\ IF Falsy(jobDesc) \/ Falsy(resumeText)
       THEN UNCHANGED <<analysis, loading, scr, notice, scrTrace>>
       ELSE /\ Len(store) < MaxStore
            /\ loading' = TRUE
            /\ analysis' = JsNull
            /\ scr' = [ScrIdle EXCEPT !.pc = "callGemini", !.jd = jobDesc]
            /\ notice' = <<>>
            /\ scrTrace' = [NoTrace EXCEPT !.jd = jobDesc, !.before = Len(store)]
    /\ op' = "handleScreening"
    /\ ret' = <<>>
    /\ UNCHANGED <<interviewVars, chatVars, crashed, history, user, jobDesc, resumeText, store, gw, ext>>

\* lines 287-300 and 302-307: callGemini settles; the text is cleaned and parsed,
\* the result is shown and the record is built and handed to addDoc.  A
\* SyntaxError of JSON.parse, or the TypeError of reading result.score of null,
\* goes to the catch and the finally.  addDoc gives the document a fresh id.
\* The result is rendered once the handler is suspended in addDoc (or has
\* ended): lines 391-404 read analysis.strengths.map and analysis.gaps.map, a
\* TypeError when the result has no such list; nothing catches it and the
\* component tree is unmounted.
handleScreeningResumes(o, now, id) ==
    /\ scr.pc = "callGemini"
    /\ \A k \in 1..Len(store) : store[k].id # id
    /\ LET resultText == callGemini(o).value
           cleanJson  == Trim(StripFences(resultText))
           parsed     == JsonParse(cleanJson)
           result     == parsed.value
       IN  IF parsed.threw
           THEN /\ notice' = AlertText
                /\ loading' = FALSE
                /\ scr' = ScrIdle
                /\ scrTrace' = [scrTrace EXCEPT !.extraction = "failed",
                                                !.text = resultText]
                /\ UNCHANGED <<analysis, crashed>>
           ELSE /\ analysis' = result
                /\ crashed' = (crashed \/ (result.type = "object"
                                              /\ ~({"strengths", "gaps"} \subseteq result.has)))
                /\ IF result.type = "null"
                   THEN /\ notice' = AlertText
                        /\ loading' = FALSE
                        /\ scr' = ScrIdle
                   ELSE /\ scr' = [scr EXCEPT !.pc = "addDoc",
                                     !.record = [id |-> id,
                                                 jobTitle |-> Slice(scr.jd, PreviewLen) \o Ellipsis,
                                                 score |-> result.score,
                                                 recommendation |-> result.recommendation,
                                                 timestamp |-> now,
                                                 createdBy |-> user]]
                        /\ UNCHANGED <<notice, loading>>
                /\ scrTrace' = [scrTrace EXCEPT !.extraction = "ok", !.text = resultText,
                                                !.result = result]
    /\ op' = Other
    /\ ret' = callGemini(o).value
    /\ UNCHANGED <<interviewVars, chatVars, history, user, jobDesc, resumeText, store, gw, ext>>

\* addDoc settling with a catch that also withdraws the displayed result
addDocSettles_Rollback(accepted) ==
    /\ scr.pc = "addDoc"
    /\ IF accepted
       THEN /\ store' = Append(store, scr.record)
            /\ UNCHANGED <<notice, analysis>>
       ELSE /\ notice' = AlertText
            /\ analysis' = JsNull
            /\ UNCHANGED store
    /\ loading' = FALSE
    /\ scr' = ScrIdle
    /\ scrTrace' = [scrTrace EXCEPT !.append = IF accepted THEN "ok" ELSE "failed"]
    /\ op' = Other
    /\ ret' = <<>>
    /\ UNCHANGED <<interviewVars, chatVars, crashed, history, user, jobDesc, resumeText, gw, ext>>

\* the record written under one fixed document, replacing the last one
addDocSettles_SetDoc(accepted) ==
    /\ scr.pc = "addDoc"
    /\ IF accepted
       THEN /\ store' = IF store = <<>> THEN <<scr.record>>
                        ELSE [store EXCEPT ![Len(store)] = scr.record]
            /\ UNCHANGED notice
       ELSE /\ notice' = AlertText
            /\ UNCHANGED store
    /\ loading' = FALSE
    /\ scr' = ScrIdle
    /\ scrTrace' = [scrTrace EXCEPT !.append = IF accepted THEN "ok" ELSE "failed"]
    /\ op' = Other
    /\ ret' = <<>>
    /\ UNCHANGED <<interviewVars, chatVars, crashed, history, user, jobDesc, resumeText, analysis, gw, ext>>

\* addDoc settling with loading cleared at the end of the try block only
addDocSettles_NoFinally(accepted) ==
    /\ scr.pc = "addDoc"
    /\ IF accepted
       THEN /\ store' = Append(store, scr.record)
            /\ loading' = FALSE
            /\ UNCHANGED notice
       ELSE /\ notice' = AlertText
            /\ UNCHANGED <<store, loading>>
    /\ scr' = ScrIdle
    /\ scrTrace' = [scrTrace EXCEPT !.append = IF accepted THEN "ok" ELSE "failed"]
    /\ op' = Other
    /\ ret' = <<>>
    /\ UNCHANGED <<interviewVars, chatVars, crashed, history, user, jobDesc, resumeText, analysis, gw, ext>>

\* lines 294-307: addDoc settles; a rejection goes to the catch; the finally
\* runs either way
addDocSettles(accepted) ==
    /\ scr.pc = "addDoc"
    /\ IF accepted
       THEN /\ store' = Append(store, scr.record)
            /\ UNCHANGED notice
       ELSE /\ notice' = AlertText
            /\ UNCHANGED store
    /\ loading' = FALSE
    /\ scr' = ScrIdle
    /\ scrTrace' = [scrTrace EXCEPT !.append = IF accepted THEN "ok" ELSE "failed"]
    /\ op' = Other
    /\ ret' = <<>>
    /\ UNCHANGED <<interviewVars, chatVars, crashed, history, user, jobDesc, resumeText, analysis, gw, ext>>

\* the document ids are taken here in increasing order
NextScreener ==
    \/ \E j \in JobDescs : SetJobDesc(j)
    \/ \E r \in ResumeTexts : SetResumeText(r)
    \/ handleScreening
    \/ \E o \in ScreeningOutcomes, now \in 1..MaxClock :
           handleScreeningResumes(o, now, Len(store) + 1)
    \/ \E accepted \in BOOLEAN : addDocSettles(accepted)

SpecScreener == InitScreener /\ [][NextScreener]_vars

\* the promise of callGemini and the promise of addDoc each settle (callGemini
\* always returns; the store accepts or rejects), and the continuation is run;
\* one signed-in user
SpecScreenerLive ==
    /\ Init
    /\ [][NextScreener]_vars
    /\ WF_vars(\E o \in ScreeningOutcomes, now \in 1..MaxClock :
                  handleScreeningResumes(o, now, Len(store) + 1))
    /\ WF_vars(\E accepted \in BOOLEAN : addDocSettles(accepted))

----------------------------------------------------------------------------
(* The history subscription of ResumeScreener (lines 247-257) *)

\* the ids addDoc can give a new document
DocIds == 1..MaxStore

\* query(collection(...)) names no order (lines 249-252): the documents of a
\* snapshot come in the order of their ids
SnapshotDocs(coll) == SortSeq(coll, LAMBDA a, b : a.id < b.id)

\* lines 253-255: a snapshot of the changed collection is delivered and
\* replaces the history
onSnapshot ==
    /\ ~crashed
    /\ history # SnapshotDocs(store)
    /\ history' = SnapshotDocs(store)
    /\ op' = Other
    /\ ret' = <<>>
    /\ UNCHANGED <<interviewVars, chatVars, user, jobDesc, resumeText, analysis, loading,
                   scr, store, notice, scrTrace, crashed, gw, ext>>

\* the endpoint answering every screening call with a well-formed payload
HistoryOutcomes ==
    {o \in EndpointOutcomes : o.shape = "text" /\ o.text \in {TextFenced, TextBare}}

\* screenings of one job description and one resume, the store giving any
\* unused id, with the subscription
NextHistory ==
    \/ SetJobDesc(JdShort)
    \/ \E r \in ResumeTexts \ {<<>>} : SetResumeText(r)
    \/ handleScreening
    \/ \E o \in HistoryOutcomes, now \in 1..MaxClock, id \in DocIds :
           handleScreeningResumes(o, now, id)
    \/ \E accepted \in BOOLEAN : addDocSettles(accepted)
    \/ onSnapshot

SpecHistory == InitScreener /\ [][NextHistory]_vars

----------------------------------------------------------------------------
(* HRAssistant (lines 155-236) *)

ChatMessage(r, t) == [role |-> r, text |-> t]

ChatInputs == {<<>>, <<" ">>, <<"How many days of PTO do I get?">>,
               <<" ", "When is payroll processed?">>}

\* the endpoint's behaviour for a chat call
ChatOutcomes ==
    {o \in EndpointOutcomes :
        \/ o.kind = "fetch-rejects"
        \/ o.shape = "text" /\ o.text = TextQuestion}

\* line 222
SetInput(d) ==
    /\ input' = d
    /\ op' = Other
    /\ ret' = <<>>
    /\ UNCHANGED <<messages, isTyping, chatCalls, interviewVars, screenerVars, gw, ext>>

\* lines 168-184: up to the await of callGemini; the functional update appends
\* to the latest transcript.  The suspended call keeps userMsg; at is the
\* place of its user message in the transcript.
handleSend ==
    /\ IF Falsy(Trim(input))
       THEN UNCHANGED <<messages, input, isTyping, chatCalls>>
       ELSE /\ Len(messages) < MaxChat
            /\ Len(chatCalls) < MaxInFlight
            /\ messages' = Append(messages, ChatMessage("user", input))
            /\ input' = <<>>
            /\ isTyping' = TRUE
            /\ chatCalls' = Append(chatCalls, [userMsg |-> input,
                                               at |-> Len(messages) + 1])
    /\ op' = "handleSend"
    /\ ret' = <<>>
    /\ UNCHANGED <<interviewVars, screenerVars, gw, ext>>

\* handleSend resuming with the transcript it saw when it was invoked
handleSendResumes_StaleClosure(i, o) ==
    /\ i \in 1..Len(chatCalls)
    /\ messages' = Append(SubSeq(messages, 1, chatCalls[i].at),
                          ChatMessage("ai", callGemini(o).value))
    /\ isTyping' = FALSE
    /\ chatCalls' = RemoveAt(chatCalls, i)
    /\ op' = "handleSendResumes"
    /\ ret' = callGemini(o).value
    /\ UNCHANGED <<input, interviewVars, screenerVars, gw, ext>>

\* lines 184-187: callGemini settles and handleSend resumes; the functional
\* update appends to the latest transcript
handleSendResumes(i, o) ==
    /\ i \in 1..Len(chatCalls)
    /\ messages' = Append(messages, ChatMessage("ai", callGemini(o).value))
    /\ isTyping' = FALSE
    /\ chatCalls' = RemoveAt(chatCalls, i)
    /\ op' = "handleSendResumes"
    /\ ret' = callGemini(o).value
    /\ UNCHANGED <<input, interviewVars, screenerVars, gw, ext>>

NextChat ==
    \/ \E d \in ChatInputs : SetInput(d)
    \/ handleSend
    \/ \E i \in 1..MaxInFlight, o \in ChatOutcomes : handleSendResumes(i, o)

SpecChat == Init /\ [][NextChat]_vars


----------------------------------------------------------------------------
(* Properties *)

\* an AI turn of the transcript contains the termination marker
HasMarkerTurn(conv) ==
    \E i \in 1..Len(conv) :
        conv[i].sender = "ai" /\ Includes(conv[i].text, TerminationMarker)

\* a text that is empty or only white space
IsBlankText(t) == \A i \in 1..Len(t) : t[i] \in WS

\* C1: the interview session is Terminated (feedback generation was triggered)
\* if and only if some AI turn of the transcript contains the termination marker.
C1_TerminatedIffMarkerTurn ==
    terminated <=> HasMarkerTurn(conversation)

\* C2: feedback is set if and only if the session is terminated and at least one
\* AI turn of its current transcript contains the termination marker.  Stated
\* here is the direction from feedback to termination: whenever feedback is set,
\* the session is terminated and an AI turn of its transcript has the marker.
\* (The other direction cannot hold while the feedback call is pending or after
\* it returned an unparseable text, see C19.)
C2_FeedbackOnlyIfTerminatedWithMarker ==
    IsSet(feedback) => (terminated /\ HasMarkerTurn(conversation))

\* C3: after End Session, and until the next Start Interview, the transcript is
\* empty and the feedback unset, whatever reply or feedback payload of an earlier
\* call arrives.
C3_ResetStaysReset ==
    ~active => (conversation = <<>> /\ ~IsSet(feedback))

\* C4: whatever the endpoint does, the call of callGemini completes by returning
\* a non-empty string and never raises.
C4_GatewayReturnsNonEmptyText ==
    gw.pc = "returned" => (~gw.threw /\ gw.value # <<>>)

\* C4 witness: a call whose request failed has returned the fallback text.
C4_FailedCallReturned ==
    gw.pc = "returned" /\ gw.value = ConnectError /\ gw.requests = 1

\* the texts of the model that carry a well-formed screening payload, and the
\* payload each carries
WellFormedTexts == {TextFenced, TextBare}
PayloadOf(t) ==
    IF t = TextFenced
    THEN [type |-> "object", has |-> ScreeningKeys, score |-> 88,
          recommendation |-> "Hire"]
    ELSE [type |-> "object", has |-> ScreeningKeys, score |-> 35,
          recommendation |-> "Reject"]

\* the first 30 characters of the job description followed by three dots
PreviewOf(jd) ==
    LET n == IF Len(jd) < 30 THEN Len(jd) ELSE 30
    IN  [i \in 1..(n + 3) |-> IF i <= n THEN jd[i] ELSE "."]

\* a screening has run to its end and no other has started since
ScreeningDone == scr.pc = "idle" /\ scrTrace.extraction # "none"

\* the store holds exactly one record more than when the screening started, and
\* that record is derived from the displayed result, the caller and the job
\* description
OneRecordAppended ==
    /\ Len(store) = scrTrace.before + 1
    /\ store[Len(store)].score = analysis.score
    /\ store[Len(store)].recommendation = analysis.recommendation
    /\ store[Len(store)].createdBy = user
    /\ store[Len(store)].jobTitle = PreviewOf(scrTrace.jd)

\* C5 as stated: a screening with non-empty inputs and a well-formed payload
\* sets the current result to the payload and appends exactly one record with
\* the result's score and recommendation, the caller's identity and the
\* truncated job description.
C5_WellFormedPayloadAppendsOneRecord ==
    (ScreeningDone /\ scrTrace.text \in WellFormedTexts)
        => (analysis = PayloadOf(scrTrace.text) /\ OneRecordAppended)

\* C5 as amended: a screening with non-empty inputs and a well-formed payload
\* sets the current result to the payload and, when the store accepts the
\* append, appends exactly one such record.
C5_WellFormedPayloadAppendsOneRecordIfAccepted ==
    (ScreeningDone /\ scrTrace.text \in WellFormedTexts)
        => /\ analysis = PayloadOf(scrTrace.text)
           /\ scrTrace.append = "ok" => OneRecordAppended

\* C5 witness: a screening of the long job description with the fenced payload
\* has completed and its record is in the store.
C5_RecordStored ==
    /\ ScreeningDone
    /\ scrTrace.text = TextFenced
    /\ scrTrace.append = "ok"
    /\ scrTrace.jd = JdLong
    /\ Len(store) = 2

\* the texts without a parseable payload: the two fallbacks of the gateway and
\* a payload wrapped in prose
UnparseableTexts == {NoCompletion, ConnectError, TextProse}

\* C6: when the returned text has no parseable payload, the screening ends with
\* the retry notice, no result is set and no record is appended.
C6_UnparseableTextFailsCleanly ==
    (ScreeningDone /\ scrTrace.text \in UnparseableTexts)
        => /\ notice = AlertText
           /\ ~IsSet(analysis)
           /\ Len(store) = scrTrace.before
           /\ ~loading

\* C6 witness: a screening that got the gateway's fallback text has completed.
C6_FallbackScreened ==
    ScreeningDone /\ scrTrace.text = ConnectError /\ notice = AlertText

\* C7: a candidate submission whose text is empty or only white space changes
\* neither the transcript, the draft, the feedback nor the session state, and
\* issues no model call.
C7_BlankSubmissionIsNoOp ==
    [][(op' = "handleResponse" /\ IsBlankText(currentInput))
          => UNCHANGED <<conversation, currentInput, feedback, active, terminated,
                         calls, isListening>>]_vars

\* C7 witness: a white-space draft was submitted in a running interview.
C7_WhitespaceSubmitted ==
    op = "handleResponse" /\ currentInput = <<" ">> /\ active /\ Len(conversation) >= 1

\* C8 as stated: a screening invoked with a blank (empty or white-space) job
\* description or resume text changes neither the result, the loading flag nor
\* the store, and issues no model call.
C8_BlankScreeningIsNoOp ==
    [][(op' = "handleScreening" /\ (IsBlankText(jobDesc) \/ IsBlankText(resumeText)))
          => UNCHANGED <<analysis, loading, store, scr>>]_vars

\* C8 as amended: a screening invoked with an empty job description or an empty
\* resume text changes neither the result, the loading flag nor the store, and
\* issues no model call.
C8_EmptyScreeningIsNoOp ==
    [][(op' = "handleScreening" /\ (jobDesc = <<>> \/ resumeText = <<>>))
          => UNCHANGED <<analysis, loading, store, scr>>]_vars

\* C8 witness: a screening was invoked with a job description and no resume
\* text, after an earlier screening had set a result.
C8_EmptyResumeScreened ==
    /\ op = "handleScreening"
    /\ jobDesc = JdShort
    /\ resumeText = <<>>
    /\ scr.pc = "idle"
    /\ IsSet(analysis)

\* the texts JSON.parse accepts as an object, and the object
ObjectTexts == WellFormedTexts \cup {TextNoLists}
ObjectOf(t) ==
    IF t \in WellFormedTexts THEN PayloadOf(t)
    ELSE [type |-> "object", has |-> {"score", "recommendation"}, score |-> 70,
          recommendation |-> "Hire"]

\* C9: when extraction succeeds and the append of the record fails, the current
\* result is still the parsed payload after the screening.
C9_ResultKeptWhenAppendFails ==
    (ScreeningDone /\ scrTrace.text \in ObjectTexts /\ scrTrace.append = "failed")
        => analysis = ObjectOf(scrTrace.text)

\* C9 witness: a screening with the fenced payload has completed with its
\* append rejected.
C9_AppendRejected ==
    /\ ScreeningDone
    /\ scrTrace.text = TextFenced
    /\ scrTrace.append = "failed"
    /\ Len(store) = scrTrace.before

\* no structured payload came out of the text: JSON.parse failed, or gave a
\* value that is no key-value document
ExtractionFailed ==
    \/ scrTrace.extraction = "failed"
    \/ scrTrace.extraction = "ok" /\ scrTrace.result.type # "object"

\* C10: a failure of the append raises no notice; the retry notice is raised
\* only when extraction failed.
C10_NoticeOnlyOnExtractionFailure ==
    /\ scrTrace.append = "failed" => notice = <<>>
    /\ notice # <<>> => ExtractionFailed

\* s is a prefix of t
IsPrefix(s, t) == Len(s) <= Len(t) /\ SubSeq(t, 1, Len(s)) = s

\* C11: no agent-layer failure is fatal: whatever the model replies and whatever
\* the store does, no state with an unhandled exception, in a handler or while
\* the result is displayed, is reachable.
C11_NoUnhandledException ==
    ~crashed

\* C12: within one interview session feedback, once set, never changes until
\* the session is reset.
C12_FeedbackSetOnceAndKept ==
    [][(active /\ active' /\ IsSet(feedback)) => feedback' = feedback]_vars

\* C13: between Start Interview and End Session every change of the transcript
\* keeps the previous transcript as a prefix of the new one.
C13_TranscriptAppendOnly ==
    [][(active /\ active') => IsPrefix(conversation, conversation')]_vars

\* C14: the HR chat transcript is append-only under every interleaving: every
\* step keeps the previous transcript as a prefix; the transcript grows only by
\* an accepted send, which appends exactly the user message, or by a resolved
\* model call, which appends exactly the AI message with the returned text; and
\* the user message that caused the call is already in the transcript.
C14_ChatTranscriptAppendOnly ==
    [][/\ IsPrefix(messages, messages')
       /\ (op' = "handleSend" /\ ~IsBlankText(input))
             => /\ messages' = Append(messages, ChatMessage("user", input))
                /\ Len(chatCalls') = Len(chatCalls) + 1
       /\ (op' = "handleSendResumes")
             => /\ messages' = Append(messages, ChatMessage("ai", ret'))
                /\ \E i \in 1..Len(chatCalls) :
                      /\ chatCalls' = RemoveAt(chatCalls, i)
                      /\ chatCalls[i].at <= Len(messages)
                      /\ messages[chatCalls[i].at] = ChatMessage("user", chatCalls[i].userMsg)
       /\ (messages' # messages)
             => (op' = "handleSendResumes" \/ (op' = "handleSend" /\ ~IsBlankText(input)))
      ]_vars

\* C14 witness: two sends overlapped and both replies have arrived, the reply
\* to the second one first.
C14_OverlappingSendsAnswered ==
    /\ Len(messages) = 5
    /\ chatCalls = <<>>
    /\ messages[2].role = "user"
    /\ messages[3].role = "user"
    /\ messages[4] = ChatMessage("ai", ConnectError)
    /\ messages[5] = ChatMessage("ai", TextQuestion)
    /\ op = "handleSendResumes"

\* C15: at most one model call of the running session is in flight at any time.
C15_AtMostOneCallInFlight ==
    Cardinality({i \in 1..Len(calls) : ~calls[i].stale}) <= 1

\* C16: after every update the history held by the subscriber is the full
\* collection in ascending order of creation.
C16_HistoryIsCollectionByCreationTime ==
    [][history' # history => history' = store']_vars

\* C17: the persisted collection only grows: every step keeps the previous
\* collection as a prefix of the new one, and a step that changes it appends one
\* record and is the completion of the append of a screening whose extraction
\* succeeded, which is thereby used up.
C17_StoreOnlyGrowsByScreenings ==
    [][/\ IsPrefix(store, store')
       /\ (store' # store)
             => /\ Len(store') = Len(store) + 1
                /\ scrTrace.extraction = "ok"
                /\ scrTrace.result.type = "object"
                /\ scr.pc = "addDoc"
                /\ scr'.pc = "idle"
      ]_vars

\* C17 witness: a second record was appended to the collection.
C17_SecondRecordAppended ==
    /\ Len(store) = 2
    /\ scr.pc = "idle"
    /\ scrTrace.append = "ok"
    /\ scrTrace.before = 1
    /\ store[1].id # store[2].id

\* C18: Start Interview with an empty role title changes nothing and leaves the
\* session not started; with a non-empty role title it makes the session active
\* with a transcript of exactly one turn, an AI turn that carries the welcome
\* text with the role title in it.
C18_StartInterviewSeedsWelcome ==
    [][(op' = "startInterview")
          => IF role = <<>>
             THEN /\ ~active'
                  /\ UNCHANGED <<active, conversation, feedback, terminated, calls>>
             ELSE /\ active'
                  /\ Len(conversation') = 1
                  /\ conversation'[1].sender = "ai"
                  /\ conversation'[1].text[1] = "Welcome to the interview for the "
                  /\ SubSeq(conversation'[1].text, 2, 1 + Len(role)) = role
                  /\ Len(conversation'[1].text) = Len(role) + 2
      ]_vars

\* C18 witness: an interview was started for a role.
C18_InterviewStarted ==
    /\ op = "startInterview"
    /\ active
    /\ role = <<"Frontend Dev">>
    /\ Len(conversation) = 1

\* C19: when the feedback call returns a text that cannot be parsed, the step
\* changes neither the termination state nor the feedback (a terminated session
\* with feedback unset stays so), leaves the transcript as it is and raises no
\* notice.
C19_UnparseableFeedbackChangesNothing ==
    [][(op' = "generateFeedback" /\ ret' \in UnparseableTexts)
          => /\ UNCHANGED <<terminated, feedback, conversation, active, notice>>
             /\ (terminated /\ ~IsSet(feedback)) => (terminated' /\ ~IsSet(feedback'))
      ]_vars

\* C19 witness: the feedback call of a terminated session has returned the
\* gateway's fallback text.
C19_FeedbackCallFellBack ==
    /\ op = "generateFeedback"
    /\ ret = ConnectError
    /\ active
    /\ terminated
    /\ ~IsSet(feedback)
    /\ HasMarkerTurn(conversation)

\* C20 as stated: a reply that parses but lacks a required field of a screening
\* is neither set as the result nor persisted as a record.
C20_IncompletePayloadRejected ==
    (ScreeningDone /\ scrTrace.text = TextNoLists)
        => (~IsSet(analysis) /\ Len(store) = scrTrace.before)

\* C20 as amended: required fields are not validated: a reply that parses to an
\* object with a score and a recommendation but without strengths, gaps and
\* summary is accepted as the structured value; it is set as the result and,
\* when the store accepts the append, persisted as a record.
C20_IncompletePayloadAccepted ==
    (ScreeningDone /\ scrTrace.text = TextNoLists)
        => /\ analysis = ObjectOf(TextNoLists)
           /\ scrTrace.append # "none"
           /\ scrTrace.append = "ok"
                 => /\ Len(store) = scrTrace.before + 1
                    /\ store[Len(store)].score = 70
                    /\ store[Len(store)].recommendation = "Hire"

\* C20 witness: a screening whose reply had no strengths and gaps has completed
\* and its record is in the store.
C20_IncompleteRecordStored ==
    /\ ScreeningDone
    /\ scrTrace.text = TextNoLists
    /\ scrTrace.append = "ok"
    /\ Len(store) = 1

\* JSON.stringify of a parsed value: the documents above are written in their
\* canonical form, except DocEscaped, whose canonical form writes the
\* backquotes out
Canonical(v) ==
    CASE v = DocValue(DocHire)     -> <<DocHire>>
      [] v = DocValue(DocReject)   -> <<DocReject>>
      [] v = DocValue(DocNoLists)  -> <<DocNoLists>>
      [] v = DocValue(DocFeedback) -> <<DocFeedback>>
      [] v = DocValue(DocEscaped)  -> DocWrittenOut
      [] v = DocValue(DocCut)      -> <<DocCut>>
      [] OTHER                     -> <<DocNull>>

\* C21: extraction is idempotent: when an extraction succeeded and the same
\* extraction is applied to the canonical serialization of its value, with or
\* without code-fence markers around it, it succeeds with an equal value.
C21_ExtractionIdempotent ==
    (/\ Len(ext) = 2
     /\ ~ext[1].threw
     /\ ext[2].who = ext[1].who
     /\ ext[2].raw \in Wraps(Canonical(ext[1].value)))
        => (~ext[2].threw /\ ext[2].value = ext[1].value)

\* C22: an invocation of callGemini sends at most one request to the endpoint;
\* a failed request is not sent again.
C22_AtMostOneRequest ==
    /\ gw.requests <= 1
    /\ gw.pc = "returned" => gw.requests = 1

\* C22 witness: an invocation with a prompt has returned after its one request
\* met a status that is not ok or a failed fetch.
C22_FailedRequestNotRetried ==
    /\ gw.pc = "returned"
    /\ gw.prompt = "What is the leave policy?"
    /\ gw.value = ConnectError
    /\ ~gw.threw
    /\ gw.requests = 1

\* the number of suspended feedback calls
FbCalls(q) == Cardinality({i \in 1..Len(q) : q[i].kind = "feedback"})

\* the text has the word "concludes" in it
HasConcludes(t) == \E k \in 1..Len(t) : t[k] = "concludes"

\* C23: when a model reply with the termination marker arrives, exactly one
\* feedback call is issued, with the transcript that ends with that reply; when
\* a reply without the marker arrives none is issued; and no other step issues
\* a feedback call.
C23_FeedbackCallIffMarker ==
    [][/\ (op' = "handleResponseResumes")
             => IF HasConcludes(ret')
                THEN /\ FbCalls(calls') = FbCalls(calls) + 1
                     /\ calls'[Len(calls')].kind = "feedback"
                     /\ calls'[Len(calls')].conv = conversation'
                     /\ conversation'[Len(conversation')] = Turn("ai", ret')
                ELSE FbCalls(calls') = FbCalls(calls)
       /\ (FbCalls(calls') > FbCalls(calls))
             => (op' = "handleResponseResumes" /\ HasConcludes(ret'))
      ]_vars

\* C23 witness: the reply with the marker has arrived in a running interview and
\* the feedback call for its transcript is pending.
C23_FeedbackCallPending ==
    /\ op = "handleResponseResumes"
    /\ ret = TextConcludes
    /\ active
    /\ Len(calls) = 1
    /\ calls[1].kind = "feedback"
    /\ calls[1].conv = conversation
    /\ Len(conversation) = 3

\* C24: in an active session (with no call of an earlier session pending) an
\* accepted submission appends the candidate turn and issues exactly one model
\* call, for the transcript up to and including that turn; and the arrival of
\* the returned text appends it to the transcript as one AI turn, whatever the
\* text is.
C24_SubmissionAppendsTurnsAndCallsOnce ==
    [][(active /\ active' /\ \A i \in 1..Len(calls) : ~calls[i].stale)
          => /\ (op' = "handleResponse" /\ ~IsBlankText(currentInput))
                   => /\ conversation' = Append(conversation,
                                                Turn("candidate", currentInput))
                      /\ calls' = Append(calls, [kind |-> "reply", conv |-> conversation',
                                                 stale |-> FALSE])
             /\ (op' = "handleResponseResumes")
                   => conversation' = Append(conversation, Turn("ai", ret'))
      ]_vars

\* C25: once an AI turn with the termination marker is in the transcript of the
\* running session, no step before End Session changes the transcript or issues
\* a model call for a candidate turn.
C25_TerminatedIsAbsorbing ==
    [][(active /\ active' /\ terminated /\ HasMarkerTurn(conversation))
          => /\ conversation' = conversation
             /\ Cardinality({i \in 1..Len(calls') : calls'[i].kind = "reply"})
                   <= Cardinality({i \in 1..Len(calls) : calls[i].kind = "reply"})
      ]_vars

\* C26: the loading flag is set exactly while a screening is in progress, and
\* every started screening returns to idle with the flag cleared, whichever way
\* the model call and the append of the record end.
C26_LoadingEventuallyCleared ==
    /\ [](loading <=> scr.pc # "idle")
    /\ loading ~> (~loading /\ scr.pc = "idle")

\* C26 witness: after a screening that stored its record, a second screening has
\* ended with a failed extraction and the flag is cleared.
C26_BackToIdleAfterFailure ==
    /\ scr.pc = "idle"
    /\ ~loading
    /\ scrTrace.extraction = "failed"
    /\ scrTrace.before = 1
    /\ Len(store) = 1
    /\ notice = AlertText

====
